---- MODULE Spec2Model ----
(***************************************************************************)
(* Model of crates/cli/src/api.rs: endpoint resolution, the dispatch of a  *)
(* class verification job and the polling of its status.  One behaviour of *)
(* the model is one call of dispatch_class_verification_job or of          *)
(* poll_verification_status against a server whose answers are chosen      *)
(* nondeterministically.                                                   *)
(***************************************************************************)
EXTENDS Integers, Sequences, FiniteSets, TLC

VARIABLES
    op,                \* which function this run calls: "dispatch", "poll"
                       \* or "exists"
    pc,                \* position inside the function
    network,           \* argument: Network
    env,               \* the process environment (variable name -> Option)
    max_retries,       \* argument of poll_verification_status
    files,             \* argument of dispatch: sequence of FileInfo
    next_file,         \* dispatch: index of the next file to read
    form,              \* dispatch: the multipart form built so far
    resolved,          \* Option: the pair get_network_api returned
    skipped,           \* passes of the poll loop made before the run's start
    public_url,        \* local: second component of get_network_api
    use_max_retries,   \* local of poll_verification_status
    retries,           \* local of poll_verification_status
    requests,          \* every outbound HTTP request issued so far
    sleeps,            \* number of sleep(RETRY_INTERVAL) calls so far
    observed,          \* what each answer to a request turned out to be
    last,              \* Option: the last HTTP response received
    outcome            \* how the call ended (Pending while it runs)

vars == <<op, pc, network, env, max_retries, files, next_file, form, resolved,
          skipped, public_url,
          use_max_retries, retries, requests, sleeps, observed, last, outcome>>

----------------------------------------------------------------------------
(* Bounds of the model *)

\* largest max_retries argument tried
MaxRetriesArg == 3
\* GET requests after which an unbounded poll is no longer followed
MaxPolls == 5
\* wire status integers 0..MaxWireStatus are tried (plus the u8 edge values)
MaxWireStatus == 5
\* longest list of input files
MaxFiles == 2
\* a long run starts at most this many loop passes before the counter's limit
LongRunLead == 2

----------------------------------------------------------------------------
(* Option values: None is the empty sequence, Some(v) a one-element one *)

None == <<>>
Some(v) == <<v>>
IsSome(o) == Len(o) = 1
UnwrapOr(o, d) == IF IsSome(o) THEN o[1] ELSE d

----------------------------------------------------------------------------
(* Text: environment values are sequences of characters *)

LowerChar(c) ==
    CASE c = "T" -> "t"
      [] c = "R" -> "r"
      [] c = "U" -> "u"
      [] c = "E" -> "e"
      [] c = "F" -> "f"
      [] c = "A" -> "a"
      [] c = "L" -> "l"
      [] c = "S" -> "s"
      [] OTHER -> c

to_lowercase(s) == [i \in 1..Len(s) |-> LowerChar(s[i])]

TrueText == <<"t", "r", "u", "e">>

----------------------------------------------------------------------------
(* Results of a call *)

Pending == [kind |-> "Pending", msg |-> "", data |-> <<>>]
Ok(v) == [kind |-> "Ok", msg |-> "", data |-> <<v>>]
Err(m, d) == [kind |-> "Err", msg |-> m, data |-> d]
Panic(m, d) == [kind |-> "Panic", msg |-> m, data |-> d]

----------------------------------------------------------------------------
(* Network and endpoint resolution *)

Networks == {"Mainnet", "Sepolia", "Local", "Custom"}

\* env::var(name): Some(value) when the variable is set, None otherwise
env_var(e, name) == e[name]

\* the resolver with the two variable names exchanged
get_network_api_Swapped(n, e) ==
    LET url ==
            CASE n = "Mainnet" -> "https://voyager.online"
              [] n = "Sepolia" -> "https://sepolia.voyager.online"
              [] n = "Local" -> "http://localhost:8899"
              [] n = "Custom" ->
                   UnwrapOr(env_var(e, "CUSTOM_PUBLIC_API_ENDPOINT_URL"), "")
        purl ==
            CASE n = "Mainnet" -> "https://api.voyager.online/beta"
              [] n = "Sepolia" -> "https://sepolia-api.voyager.online/beta"
              [] n = "Local" -> "http://localhost:30380"
              [] n = "Custom" ->
                   UnwrapOr(env_var(e, "CUSTOM_INTERNAL_API_ENDPOINT_URL"), "")
    IN  <<url, purl>>

\* the resolver letting a set override replace the URL of any network
get_network_api_OverrideWins(n, e) ==
    LET url ==
            CASE n = "Mainnet" -> "https://voyager.online"
              [] n = "Sepolia" -> "https://sepolia.voyager.online"
              [] n = "Local" -> "http://localhost:8899"
              [] n = "Custom" -> ""
        purl ==
            CASE n = "Mainnet" -> "https://api.voyager.online/beta"
              [] n = "Sepolia" -> "https://sepolia-api.voyager.online/beta"
              [] n = "Local" -> "http://localhost:30380"
              [] n = "Custom" -> ""
    IN  <<UnwrapOr(env_var(e, "CUSTOM_INTERNAL_API_ENDPOINT_URL"), url),
          UnwrapOr(env_var(e, "CUSTOM_PUBLIC_API_ENDPOINT_URL"), purl)>>

get_network_api(n, e) ==
    LET url ==
            CASE n = "Mainnet" -> "https://voyager.online"
              [] n = "Sepolia" -> "https://sepolia.voyager.online"
              [] n = "Local" -> "http://localhost:8899"
              [] n = "Custom" ->
                   UnwrapOr(env_var(e, "CUSTOM_INTERNAL_API_ENDPOINT_URL"), "")
        purl ==
            CASE n = "Mainnet" -> "https://api.voyager.online/beta"
              [] n = "Sepolia" -> "https://sepolia-api.voyager.online/beta"
              [] n = "Local" -> "http://localhost:30380"
              [] n = "Custom" ->
                   UnwrapOr(env_var(e, "CUSTOM_PUBLIC_API_ENDPOINT_URL"), "")
    IN  <<url, purl>>

\* ApiEndpoints::as_str: a path template is a sequence of text pieces
as_str(endpoint) ==
    CASE endpoint = "GetClass" -> <<"/api/class/", "{class_hash}">>
      [] endpoint = "GetJobStatus" -> <<"/class-verify/job/", "{job_id}">>
      [] endpoint = "VerifyClass" -> <<"/class-verify/", "{class_hash}">>

replace(s, from, to) == [i \in 1..Len(s) |-> IF s[i] = from THEN to ELSE s[i]]

to_api_path(endpoint, param) ==
    CASE endpoint = "GetClass" -> replace(as_str(endpoint), "{class_hash}", param)
      [] endpoint = "GetJobStatus" -> replace(as_str(endpoint), "{job_id}", param)
      [] endpoint = "VerifyClass" -> replace(as_str(endpoint), "{class_hash}", param)

\* an outbound request: the URL is the base followed by the path pieces
\* and the body is None or Some(multipart form)
Request(method, base, path, body) ==
    [method |-> method, url |-> <<base>> \o path, body |-> body]

----------------------------------------------------------------------------
(* HTTP responses.  A body is a JSON object, a function from field names   *)
(* to values; NotJson stands for a body that is no JSON object at all.     *)

HTTP_OK == 200
HTTP_BAD_REQUEST == 400
HTTP_NOT_FOUND == 404
HTTP_SERVER_ERROR == 500

NotJson == [raw |-> "<html>"]
ErrorBody(m) == [error |-> m]
DispatchBody(id) == [job_id |-> id]
JobBody(id, s, d) ==
    [job_id |-> id, status |-> s, status_description |-> d, class_hash |-> "0xc1a55"]

\* sent = FALSE: send() itself failed; readable = FALSE: reading the body fails
Resp(status, body, readable) ==
    [sent |-> TRUE, status |-> status, body |-> body, readable |-> readable]
TransportFailure ==
    [sent |-> FALSE, status |-> 0, body |-> NotJson, readable |-> FALSE]

\* What send() can yield for a request to base URL `base`: a URL without a
\* base cannot be parsed, and send() returns that error without any answer.
AnswersTo(base, answers) == IF base = "" THEN {TransportFailure} ELSE answers

U8Max == 255
WireStatuses == (0..MaxWireStatus) \cup {U8Max, U8Max + 1}
Descriptions == {None, Some("boom")}
JobIds == {"abc123", "j2"}
ErrorTexts == {"bad license"}

\* response.text(): None when the body cannot be read
text(r) == IF r.readable THEN Some(r.body) ELSE None

\* response.json::<VerificationJob>(): job_id, status (u8) and class_hash are
\* required, status_description is optional, other fields are ignored
json_VerificationJob(r) ==
    IF /\ r.readable
       /\ {"job_id", "status", "class_hash"} \subseteq DOMAIN r.body
       /\ r.body.status \in 0..U8Max
    THEN Some([job_id |-> r.body.job_id,
               status |-> r.body.status,
               status_description |->
                   IF "status_description" \in DOMAIN r.body
                   THEN r.body.status_description ELSE None,
               class_hash |-> r.body.class_hash])
    ELSE None

\* response.json::<VerificationJobDispatch>()
json_VerificationJobDispatch(r) ==
    IF r.readable /\ "job_id" \in DOMAIN r.body
    THEN Some([job_id |-> r.body.job_id])
    ELSE None

\* response.json::<ApiError>()
json_ApiError(r) ==
    IF r.readable /\ "error" \in DOMAIN r.body
    THEN Some([error |-> r.body.error])
    ELSE None

----------------------------------------------------------------------------
(* VerifyJobStatus *)

VerifyJobStatus == {"Submitted", "Compiled", "CompileFailed", "Fail", "Success"}

\* from_u8 with a catch-all arm that coerces instead of panicking
from_u8_Coerce(status) ==
    CASE status = 0 -> "Submitted"
      [] status = 1 -> "Compiled"
      [] status = 2 -> "CompileFailed"
      [] status = 3 -> "Fail"
      [] status = 4 -> "Success"
      [] OTHER -> "Submitted"

\* "panic" stands for the panic!("Unknown status: {}") arm
from_u8(status) ==
    CASE status = 0 -> "Submitted"
      [] status = 1 -> "Compiled"
      [] status = 2 -> "CompileFailed"
      [] status = 3 -> "Fail"
      [] status = 4 -> "Success"
      [] OTHER -> "panic"

----------------------------------------------------------------------------
(* poll_verification_status *)

RETRY_INTERVAL == 5000

POLL_FLAG == "USE_POLLING_MAX_RETRIES"

\* the flag taken as on for any value that is set
UseMaxRetries_AnyValue(e) == IsSome(env_var(e, POLL_FLAG))

\* the flag is on only for a value that lowercases to "true"
UseMaxRetries(e) ==
    LET value == env_var(e, POLL_FLAG)
    IN  IF IsSome(value) THEN to_lowercase(value[1]) = TrueText ELSE FALSE

\* the status match with only the 404 arm: other statuses fall through
PollStatusCheck_OnlyNotFound(r) ==
    CASE r.status = HTTP_NOT_FOUND -> Some(Err("Job not found", <<>>))
      [] OTHER -> None

\* the match on result.status(): None when the response is a 200 and the
\* function goes on, Some(error) when it returns
PollStatusCheck(r) ==
    CASE r.status = HTTP_OK -> None
      [] r.status = HTTP_NOT_FOUND -> Some(Err("Job not found", <<>>))
      [] OTHER ->
           IF IsSome(text(r))
           THEN Some(Err("Unexpected status code", <<r.status, text(r)[1]>>))
           ELSE Some(Err("Body read error", <<>>))

\* the match without its CompileFailed arm
PollStatusMatch_NoCompileFailed(data) ==
    LET st == from_u8(data.status)
    IN  CASE st = "Success" -> Some(Ok(data))
          [] st = "Fail" ->
               Some(Err("Failed to verify",
                        <<UnwrapOr(data.status_description, "unknown failure")>>))
          [] st = "panic" -> Some(Panic("Unknown status", <<data.status>>))
          [] OTHER -> None

\* the match with the Fail arm's message copied into the CompileFailed arm
PollStatusMatch_SameMessage(data) ==
    LET st == from_u8(data.status)
    IN  CASE st = "Success" -> Some(Ok(data))
          [] st \in {"Fail", "CompileFailed"} ->
               Some(Err("Failed to verify",
                        <<UnwrapOr(data.status_description, "unknown failure")>>))
          [] st = "panic" -> Some(Panic("Unknown status", <<data.status>>))
          [] OTHER -> None

\* the match on VerifyJobStatus::from_u8(data.status): None for the `_ => ()`
\* arm, Some(result) for the arms that return (or panic)
PollStatusMatch(data) ==
    LET st == from_u8(data.status)
    IN  CASE st = "Success" -> Some(Ok(data))
          [] st = "Fail" ->
               Some(Err("Failed to verify",
                        <<UnwrapOr(data.status_description, "unknown failure")>>))
          [] st = "CompileFailed" ->
               Some(Err("Compilation failed",
                        <<UnwrapOr(data.status_description, "unknown failure")>>))
          [] st = "panic" -> Some(Panic("Unknown status", <<data.status>>))
          [] OTHER -> None

(* u32 arithmetic.  The model checker's integers are 32-bit signed, so a   *)
(* u32 value v >= 2^31 is held as v - 2^32: 4294967295 is held as -1 and   *)
(* values below 2^31 as themselves.                                        *)
U32Max == -1
I32Max == 2147483647
\* a < b as u32 values
LtU32(a, b) == IF (a < 0) = (b < 0) THEN a < b ELSE b < 0
\* x + 1 as a u32 value when x + 1 fits, 0 (the wrapped value) otherwise
IncU32(x) ==
    IF x = U32Max THEN 0
    ELSE IF x = I32Max THEN (0 - I32Max) - 1
    ELSE x + 1
\* how the build treats an overflowing `+=`: overflow checks on (the debug
\* profile) panic, overflow checks off (the release profile) wrap
Builds == {"debug", "release"}

\* the ceiling test off by one in either direction
\* the test that never fires
CeilingExceeded_Ignored(use, n, max) == FALSE
CeilingExceeded_Early(use, n, max) == use /\ ~LtU32(n, max)
CeilingExceeded_Late(use, n, max) == use /\ LtU32(max + 1, n)

\* the test that breaks out of the loop: retries > max_retries
CeilingExceeded(use, n, max) == use /\ LtU32(max, n)

TimeoutError == Err("Timeout: Verification job took too long to complete", <<>>)

OverflowPanic == Panic("attempt to add with overflow", <<>>)

\* the loop body testing the ceiling before it looks at the job's status
PollBody_CeilingFirst(r, n, use, max, build) ==
    IF ~r.sent
    THEN [next |-> "done", result |-> Err("Transport error", <<>>), retries |-> n]
    ELSE IF IsSome(PollStatusCheck(r))
    THEN [next |-> "done", result |-> PollStatusCheck(r)[1], retries |-> n]
    ELSE IF ~IsSome(json_VerificationJob(r))
    THEN [next |-> "done", result |-> Err("Decode error", <<>>), retries |-> n]
    ELSE IF n = U32Max /\ build = "debug"
    THEN [next |-> "done", result |-> OverflowPanic, retries |-> n]
    ELSE IF CeilingExceeded(use, IncU32(n), max)
    THEN [next |-> "done", result |-> TimeoutError, retries |-> IncU32(n)]
    ELSE LET m == PollStatusMatch(json_VerificationJob(r)[1])
         IN  IF IsSome(m)
             THEN [next |-> "done", result |-> m[1], retries |-> IncU32(n)]
             ELSE [next |-> "sleep", result |-> Pending, retries |-> IncU32(n)]

\* the loop body counting a retry only when the ceiling flag is on
PollBody_CountOnlyWithFlag(r, n, use, max, build) ==
    IF ~r.sent
    THEN [next |-> "done", result |-> Err("Transport error", <<>>), retries |-> n]
    ELSE IF IsSome(PollStatusCheck(r))
    THEN [next |-> "done", result |-> PollStatusCheck(r)[1], retries |-> n]
    ELSE IF ~IsSome(json_VerificationJob(r))
    THEN [next |-> "done", result |-> Err("Decode error", <<>>), retries |-> n]
    ELSE LET data == json_VerificationJob(r)[1]
             m == PollStatusMatch(data)
         IN  IF IsSome(m)
             THEN [next |-> "done", result |-> m[1], retries |-> n]
             ELSE IF ~use
             THEN [next |-> "sleep", result |-> Pending, retries |-> n]
             ELSE IF n = U32Max /\ build = "debug"
             THEN [next |-> "done", result |-> OverflowPanic, retries |-> n]
             ELSE IF CeilingExceeded(use, IncU32(n), max)
             THEN [next |-> "done", result |-> TimeoutError, retries |-> IncU32(n)]
             ELSE [next |-> "sleep", result |-> Pending, retries |-> IncU32(n)]

\* One pass of the loop body after send(): what the response r leads to.
\* next = "done": the function returns `result` (or panics with it);
\* next = "sleep": it sleeps and loops.  `retries += 1` on u32::MAX panics
\* or wraps, as the build has it.
PollBody(r, n, use, max, build) ==
    IF ~r.sent
    THEN [next |-> "done", result |-> Err("Transport error", <<>>), retries |-> n]
    ELSE IF IsSome(PollStatusCheck(r))
    THEN [next |-> "done", result |-> PollStatusCheck(r)[1], retries |-> n]
    ELSE IF ~IsSome(json_VerificationJob(r))
    THEN [next |-> "done", result |-> Err("Decode error", <<>>), retries |-> n]
    ELSE LET data == json_VerificationJob(r)[1]
             m == PollStatusMatch(data)
         IN  IF IsSome(m)
             THEN [next |-> "done", result |-> m[1], retries |-> n]
             ELSE IF n = U32Max /\ build = "debug"
             THEN [next |-> "done", result |-> OverflowPanic, retries |-> n]
             ELSE IF CeilingExceeded(use, IncU32(n), max)
             THEN [next |-> "done", result |-> TimeoutError, retries |-> IncU32(n)]
             ELSE [next |-> "sleep", result |-> Pending, retries |-> IncU32(n)]

\* What is recorded of a response in `observed`: whether it arrived, its
\* HTTP status, and the status integer of its body when the body is a
\* readable job record (None otherwise).
Seen(r) ==
    [sent |-> r.sent,
     http |-> r.status,
     job |-> IF r.readable /\ {"job_id", "status", "class_hash"} \subseteq DOMAIN r.body
             THEN Some(r.body.status) ELSE None]

\* the responses a server may give to the status request
PollAnswers ==
    {TransportFailure}
    \cup {Resp(HTTP_OK, JobBody("abc123", s, d), TRUE) :
              s \in WireStatuses, d \in Descriptions}
    \cup {Resp(HTTP_OK, b, rd) : b \in {NotJson, DispatchBody("abc123")},
              rd \in BOOLEAN}
    \cup {Resp(c, b, rd) : c \in {HTTP_NOT_FOUND, HTTP_BAD_REQUEST, HTTP_SERVER_ERROR},
              b \in {NotJson, ErrorBody("bad license"), JobBody("abc123", 0, None)},
              rd \in BOOLEAN}

JOB_ID == "abc123"

\* entry: resolve the endpoint, reset the counter, read the flag
PollEnter ==
    /\ op = "poll" /\ pc = "entry"
    /\ resolved' = Some(get_network_api(network, env))
    /\ public_url' = get_network_api(network, env)[2]
    /\ retries' = 0
    /\ use_max_retries' = UseMaxRetries(env)
    /\ pc' = "get"
    /\ UNCHANGED <<op, network, env, skipped, max_retries, files, next_file, form,
                   requests, sleeps, observed, last, outcome>>

\* client.get(public_url + path).send()
PollSend ==
    /\ op = "poll" /\ pc = "get"
    /\ Len(requests) < MaxPolls
    /\ requests' = Append(requests,
           Request("GET", public_url, to_api_path("GetJobStatus", JOB_ID), None))
    /\ pc' = "await"
    /\ UNCHANGED <<op, network, env, resolved, skipped, max_retries, files, next_file, form,
                   public_url, use_max_retries, retries, sleeps, observed,
                   last, outcome>>

\* the rest of the loop body, for the response r
PollReceive ==
    /\ op = "poll" /\ pc = "await"
    /\ \E r \in AnswersTo(public_url, PollAnswers), build \in Builds :
         LET b == PollBody(r, retries, use_max_retries, max_retries, build)
         IN  /\ last' = Some(r)
             /\ observed' = Append(observed, Seen(r))
             /\ retries' = b.retries
             /\ outcome' = b.result
             /\ pc' = b.next
    /\ UNCHANGED <<op, network, env, resolved, skipped, max_retries, files, next_file, form,
                   public_url, use_max_retries, requests, sleeps>>

\* sleep(RETRY_INTERVAL), then the next pass of the loop
PollSleep ==
    /\ op = "poll" /\ pc = "sleep"
    /\ sleeps' = sleeps + 1
    /\ pc' = "get"
    /\ UNCHANGED <<op, network, env, resolved, skipped, max_retries, files, next_file, form,
                   public_url, use_max_retries, retries, requests, observed,
                   last, outcome>>

----------------------------------------------------------------------------
(* dispatch_class_verification_job *)

ADDRESS == "0x0123"
LICENSE == "MIT"
NAME == "my_contract"

\* SupportedCairoVersions::to_string and SupportedScarbVersions::to_string
cairo_to_string(v) == CASE v = "V2_5_0" -> "2.5.0"
scarb_to_string(v) == CASE v = "V2_5_0" -> "2.5.0"

PROJECT_METADATA ==
    [cairo_version |-> "V2_5_0", scarb_version |-> "V2_5_0",
     project_dir_path |-> "/proj", contract_file |-> "src/lib.cairo"]

FileInfos ==
    {[name |-> "lib.cairo", path |-> "/proj/src/lib.cairo"],
     [name |-> "erc20.cairo", path |-> "/proj/src/erc20.cairo"],
     [name |-> "gone.cairo", path |-> "/proj/src/gone.cairo"]}

\* fs::read_to_string on the file system of the run: None is an I/O error
read_to_string(path) ==
    CASE path = "/proj/src/lib.cairo" -> Some("mod erc20;")
      [] path = "/proj/src/erc20.cairo" -> Some("fn transfer() {}")
      [] OTHER -> None

SeqsUpTo(S, n) == UNION {[1..k -> S] : k \in 0..n}

\* the form before the files are added
BaseForm(license, name, meta) ==
    << <<"compiler_version", cairo_to_string(meta.cairo_version)>>,
       <<"scarb_version", scarb_to_string(meta.scarb_version)>>,
       <<"license", license>>,
       <<"name", name>>,
       <<"contract_file", meta.contract_file>>,
       <<"project_dir_path", meta.project_dir_path>> >>

\* the field of one file: key "files__" followed by the file's name
FileField(file, content) == << <<"files__", file.name>>, content >>

\* the status match without its 404 arm
DispatchResult_NoNotFound(r) ==
    IF ~r.sent THEN Err("Transport error", <<>>)
    ELSE CASE r.status = HTTP_OK ->
                IF IsSome(json_VerificationJobDispatch(r))
                THEN Ok(json_VerificationJobDispatch(r)[1].job_id)
                ELSE Panic("called Result::unwrap() on an Err value", <<>>)
           [] r.status = HTTP_BAD_REQUEST ->
                IF IsSome(json_ApiError(r))
                THEN Err("Failed to dispatch verification job with status 400",
                         <<json_ApiError(r)[1].error>>)
                ELSE Err("Decode error", <<>>)
           [] OTHER ->
                IF IsSome(text(r))
                THEN Err("Failed to dispatch verification job with status",
                         <<r.status, text(r)[1]>>)
                ELSE Err("Body read error", <<>>)

\* the match on response.status() and what follows it
DispatchResult(r) ==
    IF ~r.sent THEN Err("Transport error", <<>>)
    ELSE CASE r.status = HTTP_OK ->
                IF IsSome(json_VerificationJobDispatch(r))
                THEN Ok(json_VerificationJobDispatch(r)[1].job_id)
                ELSE Panic("called Result::unwrap() on an Err value", <<>>)
           [] r.status = HTTP_NOT_FOUND -> Err("Job not found", <<>>)
           [] r.status = HTTP_BAD_REQUEST ->
                IF IsSome(json_ApiError(r))
                THEN Err("Failed to dispatch verification job with status 400",
                         <<json_ApiError(r)[1].error>>)
                ELSE Err("Decode error", <<>>)
           [] OTHER ->
                IF IsSome(text(r))
                THEN Err("Failed to dispatch verification job with status",
                         <<r.status, text(r)[1]>>)
                ELSE Err("Body read error", <<>>)

\* the responses a server may give to the dispatch request
DispatchAnswers ==
    {TransportFailure}
    \cup {Resp(HTTP_OK, DispatchBody(id), TRUE) : id \in JobIds}
    \cup {Resp(c, b, rd) :
              c \in {HTTP_OK, HTTP_NOT_FOUND, HTTP_BAD_REQUEST, HTTP_SERVER_ERROR},
              b \in {NotJson, DispatchBody("abc123")}
                    \cup {ErrorBody(m) : m \in ErrorTexts},
              rd \in BOOLEAN}

\* entry: the form with its fixed fields
DispatchEnter ==
    /\ op = "dispatch" /\ pc = "entry"
    /\ form' = BaseForm(LICENSE, NAME, PROJECT_METADATA)
    /\ next_file' = 1
    /\ pc' = "read"
    /\ UNCHANGED <<op, network, env, resolved, skipped, max_retries, files, public_url,
                   use_max_retries, retries, requests, sleeps, observed, last,
                   outcome>>

\* the loop pass that leaves out a file it cannot read and goes on
DispatchReadFile_SkipUnreadable ==
    /\ op = "dispatch" /\ pc = "read"
    /\ next_file <= Len(files)
    /\ LET file == files[next_file]
           file_content == read_to_string(file.path)
       IN  /\ form' = IF IsSome(file_content)
                      THEN Append(form, FileField(file, file_content[1]))
                      ELSE form
           /\ next_file' = next_file + 1
           /\ UNCHANGED <<pc, outcome>>
    /\ UNCHANGED <<op, network, env, resolved, skipped, max_retries, files, public_url,
                   use_max_retries, retries, requests, sleeps, observed, last>>

\* one pass of `for file in files.iter()`
DispatchReadFile ==
    /\ op = "dispatch" /\ pc = "read"
    /\ next_file <= Len(files)
    /\ LET file == files[next_file]
           file_content == read_to_string(file.path)
       IN  IF IsSome(file_content)
           THEN /\ form' = Append(form, FileField(file, file_content[1]))
                /\ next_file' = next_file + 1
                /\ UNCHANGED <<pc, outcome>>
           ELSE /\ outcome' = Err("I/O error", <<file.path>>)
                /\ pc' = "done"
                /\ UNCHANGED <<form, next_file>>
    /\ UNCHANGED <<op, network, env, resolved, skipped, max_retries, files, public_url,
                   use_max_retries, retries, requests, sleeps, observed, last>>

\* after the loop: resolve the endpoint and send the POST
DispatchSend ==
    /\ op = "dispatch" /\ pc = "read"
    /\ next_file > Len(files)
    /\ resolved' = Some(get_network_api(network, env))
    /\ public_url' = get_network_api(network, env)[2]
    /\ requests' = Append(requests,
           Request("POST", get_network_api(network, env)[2],
                   to_api_path("VerifyClass", ADDRESS), Some(form)))
    /\ pc' = "await"
    /\ UNCHANGED <<op, network, env, skipped, max_retries, files, next_file, form,
                   use_max_retries, retries, sleeps, observed, last, outcome>>

\* the response arrives, and a server error sends the request again
DispatchReceive_Retry ==
    /\ op = "dispatch" /\ pc = "await"
    /\ \E r \in AnswersTo(public_url, DispatchAnswers) :
         /\ last' = Some(r)
         /\ observed' = Append(observed, Seen(r))
         /\ IF r.sent /\ r.status = HTTP_SERVER_ERROR /\ Len(requests) < 2
            THEN outcome' = outcome /\ pc' = "read"
            ELSE outcome' = DispatchResult(r) /\ pc' = "done"
    /\ UNCHANGED <<op, network, env, resolved, skipped, max_retries, files, next_file, form,
                   public_url, use_max_retries, retries, requests, sleeps>>

\* the response arrives
DispatchReceive ==
    /\ op = "dispatch" /\ pc = "await"
    /\ \E r \in AnswersTo(public_url, DispatchAnswers) :
         /\ last' = Some(r)
         /\ observed' = Append(observed, Seen(r))
         /\ outcome' = DispatchResult(r)
    /\ pc' = "done"
    /\ UNCHANGED <<op, network, env, resolved, skipped, max_retries, files, next_file, form,
                   public_url, use_max_retries, retries, requests, sleeps>>

----------------------------------------------------------------------------
(* does_class_exist *)

CLASS_HASH == "0x0c1a55"

\* the status match with the 404 arm left out
ExistsResult_NoNotFound(r) ==
    IF ~r.sent THEN Err("Transport error", <<>>)
    ELSE CASE r.status = HTTP_OK -> Ok(TRUE)
           [] OTHER ->
                IF IsSome(text(r))
                THEN Err("Unexpected status code when trying to get class hash",
                         <<r.status, text(r)[1]>>)
                ELSE Err("Body read error", <<>>)

\* get(..)? and the match on result.status()
ExistsResult(r) ==
    IF ~r.sent THEN Err("Transport error", <<>>)
    ELSE CASE r.status = HTTP_OK -> Ok(TRUE)
           [] r.status = HTTP_NOT_FOUND -> Ok(FALSE)
           [] OTHER ->
                IF IsSome(text(r))
                THEN Err("Unexpected status code when trying to get class hash",
                         <<r.status, text(r)[1]>>)
                ELSE Err("Body read error", <<>>)

\* the responses a server may give to the class request
ExistsAnswers ==
    {TransportFailure}
    \cup {Resp(c, b, rd) :
              c \in {HTTP_OK, HTTP_NOT_FOUND, HTTP_BAD_REQUEST, HTTP_SERVER_ERROR},
              b \in {NotJson, ErrorBody("bad license")},
              rd \in BOOLEAN}

\* resolve the internal endpoint and send the GET
ExistsSend ==
    /\ op = "exists" /\ pc = "entry"
    /\ resolved' = Some(get_network_api(network, env))
    /\ requests' = Append(requests,
           Request("GET", get_network_api(network, env)[1],
                   to_api_path("GetClass", CLASS_HASH), None))
    /\ pc' = "await"
    /\ UNCHANGED <<op, network, env, skipped, max_retries, files, next_file, form,
                   public_url, use_max_retries, retries, sleeps, observed, last,
                   outcome>>

\* the response arrives
ExistsReceive ==
    /\ op = "exists" /\ pc = "await"
    /\ \E r \in AnswersTo(resolved[1][1], ExistsAnswers) :
         /\ last' = Some(r)
         /\ observed' = Append(observed, Seen(r))
         /\ outcome' = ExistsResult(r)
    /\ pc' = "done"
    /\ UNCHANGED <<op, network, env, resolved, skipped, max_retries, files,
                   next_file, form, public_url, use_max_retries, retries,
                   requests, sleeps>>

----------------------------------------------------------------------------
(* The runs *)

CUSTOM_INTERNAL == "CUSTOM_INTERNAL_API_ENDPOINT_URL"
CUSTOM_PUBLIC == "CUSTOM_PUBLIC_API_ENDPOINT_URL"

FlagValues ==
    {None,
     Some(<<"t", "r", "u", "e">>),
     Some(<<"T", "R", "U", "E">>),
     Some(<<"T", "r", "u", "e">>),
     Some(<<"f", "a", "l", "s", "e">>),
     Some(<<"1">>)}

Environments ==
    {[n \in {POLL_FLAG, CUSTOM_INTERNAL, CUSTOM_PUBLIC} |->
         CASE n = POLL_FLAG -> f
           [] n = CUSTOM_INTERNAL -> i
           [] n = CUSTOM_PUBLIC -> p] :
        f \in FlagValues,
        i \in {None, Some("https://my-instance-internal-api.com")},
        p \in {None, Some("https://my-instance-public-api.com")}}

Init ==
    /\ op \in {"dispatch", "poll", "exists"}
    /\ pc = "entry"
    /\ network \in Networks
    /\ env \in Environments
    /\ max_retries \in 0..MaxRetriesArg
    /\ files \in SeqsUpTo(FileInfos, MaxFiles)
    \* arguments the called function does not have are left at one value
    /\ op # "dispatch" => files = <<>>
    /\ op # "poll" => max_retries = 0 /\ env[POLL_FLAG] = None
    /\ next_file = 1
    /\ form = <<>>
    /\ resolved = None
    /\ skipped = 0
    /\ public_url = ""
    /\ use_max_retries = FALSE
    /\ retries = 0
    /\ requests = <<>>
    /\ sleeps = 0
    /\ observed = <<>>
    /\ last = None
    /\ outcome = Pending

Next ==
    \/ PollEnter
    \/ PollSend
    \/ PollReceive
    \/ PollSleep
    \/ DispatchEnter
    \/ DispatchReadFile
    \/ DispatchSend
    \/ DispatchReceive
    \/ ExistsSend
    \/ ExistsReceive

Spec == Init /\ [][Next]_vars

(* poll_verification_status alone, run to its end: the function's code is  *)
(* sequential and every request it sends gets some answer (a response or a *)
(* transport failure), so a step that can be taken is eventually taken.    *)
InitPoll == Init /\ op = "poll"

PollNext ==
    \/ PollEnter
    \/ PollSend
    \/ PollReceive
    \/ PollSleep

FairPollSpec == InitPoll /\ [][PollNext]_vars /\ WF_vars(PollNext)

(* A poll that has been running for a long time: the state at the top of   *)
(* the loop after `skipped` passes that all saw a non-terminal status, the *)
(* counter within LongRunLead of u32::MAX.  The ceiling has not been hit   *)
(* so far.  requests, sleeps and observed record what follows.             *)
NearU32Max == {U32Max - d : d \in 0..LongRunLead}

InitLongRun ==
    /\ op = "poll"
    /\ pc = "get"
    /\ network = "Sepolia"
    /\ env \in Environments
    /\ max_retries \in NearU32Max
    /\ skipped \in NearU32Max
    /\ ~CeilingExceeded(UseMaxRetries(env), skipped, max_retries)
    /\ files = <<>>
    /\ next_file = 1
    /\ form = <<>>
    /\ resolved = Some(get_network_api(network, env))
    /\ public_url = get_network_api(network, env)[2]
    /\ use_max_retries = UseMaxRetries(env)
    /\ retries = skipped
    /\ requests = <<>>
    /\ sleeps = 0
    /\ observed = <<>>
    /\ last = None
    /\ outcome = Pending

LongRunNext ==
    \/ PollSend
    \/ PollReceive
    \/ PollSleep

LongRunSpec == InitLongRun /\ [][LongRunNext]_vars

----------------------------------------------------------------------------
(* Vocabulary of the properties.  These read the recorded answers and the  *)
(* environment directly, not the operators of the functions above.         *)

\* number of answers received so far
Answers == Len(observed)

\* a 200 response whose body is a job record with status integer s
IsJob(h, s) == h.sent /\ h.http = HTTP_OK /\ h.job = Some(s)
\* Submitted (0) or Compiled (1)
NonTerminal(h) == IsJob(h, 0) \/ IsJob(h, 1)
\* CompileFailed (2), Fail (3) or Success (4)
Terminal(h) == IsJob(h, 2) \/ IsJob(h, 3) \/ IsJob(h, 4)
\* the first k answers were all non-terminal 200 responses
AllNonTerminal(k) == \A i \in 1..k : NonTerminal(observed[i])

\* USE_POLLING_MAX_RETRIES is set to "true" in some letter case
FlagEnabled ==
    env[POLL_FLAG] \in {Some(<<a, b, c, d>>) :
        a \in {"t", "T"}, b \in {"r", "R"}, c \in {"u", "U"}, d \in {"e", "E"}}

\* the poll is still in its loop after k answers, each followed by one
\* counter increment and (once pc has left "sleep") one sleep
StillPolling(k) ==
    /\ outcome = Pending
    /\ pc \in {"entry", "get", "await", "sleep"}
    /\ pc = "entry" => k = 0 /\ requests = <<>> /\ sleeps = 0
    /\ pc # "entry" => retries = k
    /\ pc = "get" => Len(requests) = k /\ sleeps = k
    /\ pc = "await" => Len(requests) = k + 1 /\ sleeps = k
    /\ pc = "sleep" => Len(requests) = k /\ sleeps = k - 1

\* the status request of poll_verification_status
StatusRequest(q) ==
    /\ q.method = "GET"
    /\ q.url = <<get_network_api(network, env)[2], "/class-verify/job/", JOB_ID>>

\* the job record a response carries, as the caller receives it
RecordOf(r) ==
    [job_id |-> r.body.job_id, status |-> r.body.status,
     status_description |-> r.body.status_description,
     class_hash |-> r.body.class_hash]

PlaceholderOr(d) == IF d = None THEN "unknown failure" ELSE d[1]

----------------------------------------------------------------------------
(* C1: when the answers are k non-terminal 200 responses followed by       *)
(* Success, and the ceiling flag is off or k <= max_retries, the poll does *)
(* not give up during the k non-terminal answers and returns the Success   *)
(* job record on answer k+1, after exactly k+1 GET requests and k sleeps.  *)
C1_SuccessAfterKNonTerminal ==
    op = "poll" =>
      /\ \A k \in 0..Answers :
           (AllNonTerminal(k) /\ (~FlagEnabled \/ k <= max_retries))
             => IF k = Answers
                THEN StillPolling(k)
                ELSE IsJob(observed[k + 1], 4)
                     => /\ Answers = k + 1
                        /\ pc = "done"
                        /\ outcome = Ok(RecordOf(last[1]))
                        /\ Len(requests) = k + 1
                        /\ \A i \in 1..(k + 1) : StatusRequest(requests[i])
                        /\ sleeps = k

\* [Submitted, Compiled, Success] with the ceiling on at max_retries = 2:
\* success on the third response after two sleeps
C1_Witness ==
    /\ op = "poll" /\ pc = "done"
    /\ FlagEnabled /\ max_retries = 2
    /\ Answers = 3
    /\ IsJob(observed[1], 0) /\ IsJob(observed[2], 1) /\ IsJob(observed[3], 4)
    /\ outcome.kind = "Ok" /\ outcome.data[1].status = 4
    /\ Len(requests) = 3 /\ sleeps = 2

(* C2: once a 200 response decodes to a terminal status the poll exits at  *)
(* once: that response is the last one, no request and no sleep follows    *)
(* it, and the call has ended with a result (Fail: a job-failure error;    *)
(* on the first response: one request, zero sleeps).                       *)
C2_TerminalStatusEndsPoll ==
    op = "poll" =>
      \A i \in 1..Answers :
        Terminal(observed[i])
          => /\ i = Answers
             /\ pc = "done"
             /\ outcome.kind \in {"Ok", "Err"}
             /\ Len(requests) = i
             /\ sleeps = i - 1
             /\ IsJob(observed[i], 3) => outcome.msg = "Failed to verify"

\* Fail on the first response: job-failure error, one request, no sleep
C2_Witness ==
    /\ op = "poll" /\ pc = "done"
    /\ Answers = 1 /\ IsJob(observed[1], 3)
    /\ outcome.kind = "Err" /\ outcome.msg = "Failed to verify"
    /\ Len(requests) = 1 /\ sleeps = 0

(* C3: with the ceiling flag enabled and only non-terminal 200 responses,  *)
(* the poll goes on while the counter is at most max_retries and ends with *)
(* the timeout error when the counter first exceeds it: then max_retries+1 *)
(* requests were issued, the counter is max_retries+1 and nothing more is  *)
(* requested.                                                              *)
C3_TimeoutWhenCounterExceedsCeiling ==
    (op = "poll" /\ FlagEnabled /\ AllNonTerminal(Answers)) =>
      /\ Answers <= max_retries + 1
      /\ Answers <= max_retries => StillPolling(Answers)
      /\ Answers = max_retries + 1
           => /\ pc = "done"
              /\ outcome = TimeoutError
              /\ retries = max_retries + 1
              /\ Len(requests) = max_retries + 1
              /\ sleeps = max_retries

\* max_retries = 2 (set as "TRUE"), three Submitted answers: timeout after
\* the third increment, with three requests issued
C3_Witness ==
    /\ op = "poll" /\ pc = "done"
    /\ env[POLL_FLAG] = Some(<<"T", "R", "U", "E">>) /\ max_retries = 2
    /\ Answers = 3 /\ \A i \in 1..3 : IsJob(observed[i], 0)
    /\ outcome = TimeoutError
    /\ retries = 3 /\ Len(requests) = 3

(* C4: when the ceiling flag is not enabled (unset, or not "true" in any   *)
(* letter case) the poll never ends with the timeout error, and after      *)
(* every non-terminal 200 response it is still polling: asleep, or about   *)
(* to send or having sent the next request.                                *)
C4_NoTimeoutWithoutFlag ==
    (op = "poll" /\ ~FlagEnabled) =>
      /\ outcome # TimeoutError
      /\ AllNonTerminal(Answers) => StillPolling(Answers)
      /\ (Answers >= 1 /\ NonTerminal(observed[Answers]))
           => pc \in {"sleep", "get", "await"}

\* flag set to "false", max_retries = 0, three non-terminal answers behind
\* and the fourth request under way
C4_Witness ==
    /\ op = "poll" /\ pc = "await"
    /\ env[POLL_FLAG] = Some(<<"f", "a", "l", "s", "e">>) /\ max_retries = 0
    /\ Answers = 3 /\ AllNonTerminal(3)
    /\ retries = 3 /\ Len(requests) = 4 /\ sleeps = 3

(* C5: every GET request after the first directly follows a non-terminal   *)
(* 200 response.  A 404 ends the poll with "Job not found", another        *)
(* non-200 status with an error carrying status and body (the error of the *)
(* body read when the body cannot be read), a transport error ends it too; *)
(* none of these is followed by another request.                           *)
C5_RetryOnlyAfterNonTerminal200 ==
    op = "poll" =>
      /\ \A i \in 2..Len(requests) :
           i - 1 <= Answers /\ NonTerminal(observed[i - 1])
      /\ \A i \in 1..Answers :
           LET h == observed[i]
           IN  (~h.sent \/ h.http # HTTP_OK)
                 => /\ i = Answers
                    /\ pc = "done"
                    /\ Len(requests) = i
                    /\ outcome.kind = "Err"
                    /\ ~h.sent => outcome.msg = "Transport error"
                    /\ (h.sent /\ h.http = HTTP_NOT_FOUND)
                         => outcome = Err("Job not found", <<>>)
                    /\ (h.sent /\ h.http # HTTP_NOT_FOUND)
                         => IF last[1].readable
                            THEN outcome = Err("Unexpected status code",
                                               <<h.http, last[1].body>>)
                            ELSE outcome.msg = "Body read error"

\* a 500 carrying a job record, after one retry: an error with status and
\* body, and no third request
C5_Witness ==
    /\ op = "poll" /\ pc = "done"
    /\ Answers = 2 /\ NonTerminal(observed[1])
    /\ observed[2].sent /\ observed[2].http = HTTP_SERVER_ERROR
    /\ observed[2].job = Some(0)
    /\ outcome.msg = "Unexpected status code" /\ outcome.data[1] = HTTP_SERVER_ERROR
    /\ Len(requests) = 2

(* C6: the outcome is determined by the last response: Success returns the *)
(* job record, Fail a verification-failure error, CompileFailed a          *)
(* compilation-failure error, both carrying the status description or the  *)
(* placeholder "unknown failure"; these three and the timeout error are    *)
(* pairwise distinct, and the timeout is only produced when the last       *)
(* response had a non-terminal status.                                     *)
C6_OutcomeKindsDistinct ==
    (op = "poll" /\ Answers >= 1) =>
      LET h == observed[Answers]
          d == last[1].body.status_description
          okay == Ok(RecordOf(last[1]))
          fail == Err("Failed to verify", <<PlaceholderOr(d)>>)
          compile == Err("Compilation failed", <<PlaceholderOr(d)>>)
      IN  /\ IsJob(h, 4) => outcome = okay
          /\ IsJob(h, 3) => outcome = fail
          /\ IsJob(h, 2) => outcome = compile
          /\ Terminal(h)
               => /\ okay # fail /\ okay # compile /\ fail # compile
                  /\ TimeoutError \notin {okay, fail, compile}
          /\ outcome = TimeoutError => NonTerminal(h) /\ FlagEnabled
          /\ outcome.msg \in {"Failed to verify", "Compilation failed"}
               => Terminal(h)

\* CompileFailed without a description as the answer that would also have
\* exhausted the ceiling: the compilation failure with the placeholder
C6_Witness ==
    /\ op = "poll" /\ pc = "done"
    /\ FlagEnabled /\ max_retries = 1
    /\ Answers = 2 /\ NonTerminal(observed[1]) /\ IsJob(observed[2], 2)
    /\ last[1].body.status_description = None
    /\ outcome = Err("Compilation failed", <<"unknown failure">>)

(* C7: status integers 0,1,2,3,4 decode to Submitted, Compiled,            *)
(* CompileFailed, Fail, Success, and a 200 response whose status is any    *)
(* other integer is fatal: the poll ends there, neither polling on nor     *)
(* returning success, a job failure or the timeout.                        *)
C7_StatusDecoding ==
    /\ <<from_u8(0), from_u8(1), from_u8(2), from_u8(3), from_u8(4)>>
         = <<"Submitted", "Compiled", "CompileFailed", "Fail", "Success">>
    /\ \A s \in WireStatuses \ (0..4) : from_u8(s) \notin VerifyJobStatus
    /\ op = "poll" =>
         \A i \in 1..Answers :
           LET h == observed[i]
           IN  (h.sent /\ h.http = HTTP_OK /\ IsSome(h.job) /\ h.job[1] \notin 0..4)
                 => /\ i = Answers
                    /\ pc = "done"
                    /\ Len(requests) = i
                    /\ outcome.kind \in {"Err", "Panic"}
                    /\ outcome.msg \in {"Unknown status", "Decode error"}

\* status 5 on the second response: the unknown-status panic
C7_Witness ==
    /\ op = "poll" /\ pc = "done"
    /\ Answers = 2 /\ IsJob(observed[1], 1) /\ IsJob(observed[2], 5)
    /\ outcome = Panic("Unknown status", <<5>>)

(* C8: every error of dispatch and poll is returned to the caller as one   *)
(* failure with a descriptive message; no error path aborts the process.   *)
C8_AllErrorsReturned ==
    pc = "done" =>
      /\ outcome.kind \in {"Ok", "Err"}
      /\ outcome.kind = "Err" => outcome.msg # ""

(* C9: dispatch maps the response to one outcome: 200 with a parseable     *)
(* body returns the body's job_id unchanged; 404 fails with "Job not       *)
(* found"; 400 fails, with the service's error message when the body is a  *)
(* structured error; any other status fails with the raw status and body   *)
(* text.  A job id is returned only for a 200 response.                    *)
C9_DispatchDecisionTable ==
    (op = "dispatch" /\ last # None /\ last[1].sent) =>
      LET r == last[1]
      IN  /\ pc = "done"
          /\ (r.status = HTTP_OK /\ r.readable /\ "job_id" \in DOMAIN r.body)
               => outcome = Ok(r.body.job_id)
          /\ r.status = HTTP_NOT_FOUND => outcome = Err("Job not found", <<>>)
          /\ r.status = HTTP_BAD_REQUEST
               => /\ outcome.kind = "Err"
                  /\ (r.readable /\ "error" \in DOMAIN r.body)
                       => /\ outcome.data = <<r.body.error>>
                          /\ outcome.msg =
                               "Failed to dispatch verification job with status 400"
          /\ r.status \notin {HTTP_OK, HTTP_NOT_FOUND, HTTP_BAD_REQUEST}
               => /\ outcome.kind = "Err"
                  /\ r.readable => outcome.data = <<r.status, r.body>>
          /\ outcome.kind = "Ok" => r.status = HTTP_OK

\* {"job_id":"abc123"} with status 200 yields "abc123"
C9_Witness ==
    /\ op = "dispatch" /\ pc = "done"
    /\ last = Some(Resp(HTTP_OK, DispatchBody("abc123"), TRUE))
    /\ outcome = Ok("abc123")

\* the POST of dispatch_class_verification_job, carrying form f
VerifyRequest(q, f) ==
    /\ q.method = "POST"
    /\ q.url = <<get_network_api(network, env)[2], "/class-verify/", ADDRESS>>
    /\ q.body = Some(f)

(* C10 as stated: every invocation of dispatch issues one outbound request *)
C10_OneRequestEveryInvocation ==
    (op = "dispatch" /\ pc = "done") => Len(requests) = 1

(* C10, amended: dispatch issues at most one outbound request, the POST to *)
(* the public endpoint's class-verify path: exactly one once every file    *)
(* was read, none when reading a file failed; whatever the response, no    *)
(* second request follows, and no request goes to the class existence      *)
(* path.                                                                   *)
C10_SingleAttempt ==
    op = "dispatch" =>
      /\ Len(requests) <= 1
      /\ \A i \in 1..Len(requests) : VerifyRequest(requests[i], form)
      /\ pc = "await" => Len(requests) = 1
      /\ pc = "done"
           => IF outcome.msg = "I/O error"
              THEN requests = <<>> /\ last = None
              ELSE Len(requests) = 1 /\ last # None
      /\ Answers <= 1

\* a 500 answer: the error is returned after the one POST
C10_Witness ==
    /\ op = "dispatch" /\ pc = "done"
    /\ last # None /\ last[1].sent /\ last[1].status = HTTP_SERVER_ERROR
    /\ outcome.kind = "Err"
    /\ Len(requests) = 1 /\ requests[1].method = "POST"

(* C11 as stated: with the Custom network and no public endpoint override  *)
(* (an empty public URL) dispatch and poll fail without issuing a request  *)
(* on the empty base URL.                                                  *)
C11_EmptyUrlIsConfigurationError ==
    (op \in {"dispatch", "poll"} /\ network = "Custom" /\ env[CUSTOM_PUBLIC] = None)
      => \A i \in 1..Len(requests) : requests[i].url[1] # ""

\* get_network_api has been called and has returned
Resolved ==
    \/ op = "poll" /\ pc # "entry"
    \/ op = "dispatch" /\ pc \in {"await", "done"} /\ requests # <<>>
    \/ op = "exists" /\ pc # "entry"

\* the value of an override variable, or the empty string when it is unset
OverrideOrEmpty(name) == IF env[name] = None THEN "" ELSE env[name][1]

(* C12: for the Custom network get_network_api returns the configured      *)
(* override values, each slot on its own: the internal URL is              *)
(* CUSTOM_INTERNAL_API_ENDPOINT_URL, the public URL is                     *)
(* CUSTOM_PUBLIC_API_ENDPOINT_URL, an unset variable gives the empty       *)
(* string, and the call always returns.                                    *)
C12_CustomReturnsOverrides ==
    /\ Resolved => resolved # None
    /\ (network = "Custom" /\ resolved # None)
         => resolved = Some(<<OverrideOrEmpty(CUSTOM_INTERNAL),
                              OverrideOrEmpty(CUSTOM_PUBLIC)>>)

\* internal override set, public one unset
C12_Witness ==
    /\ network = "Custom"
    /\ env[CUSTOM_INTERNAL] = Some("https://my-instance-internal-api.com")
    /\ env[CUSTOM_PUBLIC] = None
    /\ resolved = Some(<<"https://my-instance-internal-api.com", "">>)

(* C13: for Mainnet, Sepolia and Local get_network_api returns the same    *)
(* hardcoded (internal, public) pair on every call, whatever the override  *)
(* variables hold.                                                         *)
C13_FixedNetworksHardcoded ==
    resolved # None =>
      /\ network = "Mainnet"
           => resolved[1] = <<"https://voyager.online",
                              "https://api.voyager.online/beta">>
      /\ network = "Sepolia"
           => resolved[1] = <<"https://sepolia.voyager.online",
                              "https://sepolia-api.voyager.online/beta">>
      /\ network = "Local"
           => resolved[1] = <<"http://localhost:8899", "http://localhost:30380">>

\* Sepolia with both overrides set
C13_Witness ==
    /\ network = "Sepolia"
    /\ env[CUSTOM_INTERNAL] # None /\ env[CUSTOM_PUBLIC] # None
    /\ resolved = Some(<<"https://sepolia.voyager.online",
                         "https://sepolia-api.voyager.online/beta">>)

(* C14: does_class_exist issues one GET to the internal endpoint's class   *)
(* path and returns true for status 200, false for 404 and an error for    *)
(* every other status.                                                     *)
C14_ExistenceCheck ==
    op = "exists" =>
      /\ Len(requests) = IF pc = "entry" THEN 0 ELSE 1
      /\ \A i \in 1..Len(requests) :
           /\ requests[i].method = "GET"
           /\ requests[i].url = <<resolved[1][1], "/api/class/", CLASS_HASH>>
           /\ network = "Local" => requests[i].url[1] = "http://localhost:8899"
      /\ sleeps = 0
      /\ (last # None /\ last[1].sent)
           => /\ pc = "done"
              /\ last[1].status = HTTP_OK => outcome = Ok(TRUE)
              /\ last[1].status = HTTP_NOT_FOUND => outcome = Ok(FALSE)
              /\ last[1].status \notin {HTTP_OK, HTTP_NOT_FOUND}
                   => /\ outcome.kind = "Err"
                      /\ last[1].readable
                           => outcome.data = <<last[1].status, last[1].body>>

\* a 404 answer: the class does not exist
C14_Witness ==
    /\ op = "exists" /\ pc = "done"
    /\ last # None /\ last[1].sent /\ last[1].status = HTTP_NOT_FOUND
    /\ outcome = Ok(FALSE)
    /\ Len(requests) = 1

\* number of non-terminal 200 responses among the recorded answers
NonTerminalCount == Cardinality({i \in 1..Answers : NonTerminal(observed[i])})

(* C15: with the ceiling flag enabled the poll terminates whatever the     *)
(* server answers, given that every request gets an answer: it never       *)
(* issues more than max_retries+1 requests nor sleeps more than            *)
(* max_retries times, and it reaches its exit with a result.               *)
C15_BoundedPollTerminates ==
    /\ []((op = "poll" /\ FlagEnabled) =>
            /\ Len(requests) <= max_retries + 1
            /\ sleeps <= max_retries
            /\ pc = "done" <=> outcome # Pending)
    /\ (op = "poll" /\ FlagEnabled) ~> (pc = "done" /\ outcome # Pending)

C15_Witness ==
    /\ op = "poll" /\ FlagEnabled /\ max_retries = MaxRetriesArg
    /\ pc = "done" /\ outcome = TimeoutError
    /\ Len(requests) = max_retries + 1
    /\ sleeps = max_retries

\* what the poll returns for a 200 response r with a terminal status
StatusResult(r) ==
    CASE r.body.status = 4 -> Ok(RecordOf(r))
      [] r.body.status = 3 ->
           Err("Failed to verify", <<PlaceholderOr(r.body.status_description)>>)
      [] r.body.status = 2 ->
           Err("Compilation failed", <<PlaceholderOr(r.body.status_description)>>)

(* C16: the timeout error is returned only with the flag enabled and after *)
(* max_retries+1 responses that were all non-terminal.  When the response  *)
(* number max_retries+1 carries a terminal status the poll ends with that  *)
(* status's result (the record, the Fail error or the CompileFailed error) *)
(* and not with the timeout.  With max_retries = 0 one non-terminal        *)
(* response gives the timeout after one request and no sleep.              *)
C16_TimeoutOnlyWhenNonTerminal ==
    op = "poll" =>
      /\ outcome = TimeoutError
           => /\ pc = "done"
              /\ FlagEnabled
              /\ Answers = max_retries + 1
              /\ AllNonTerminal(Answers)
      /\ (FlagEnabled /\ Answers = max_retries + 1 /\ AllNonTerminal(max_retries)
            /\ Terminal(observed[Answers]))
           => /\ pc = "done"
              /\ outcome = StatusResult(last[1])
              /\ outcome # TimeoutError
      /\ (FlagEnabled /\ max_retries = 0 /\ Answers = 1 /\ NonTerminal(observed[1]))
           => /\ pc = "done"
              /\ outcome = TimeoutError
              /\ Len(requests) = 1
              /\ sleeps = 0

\* CompileFailed in the last response the ceiling allows
C16_Witness ==
    /\ op = "poll" /\ pc = "done"
    /\ FlagEnabled /\ max_retries = 2
    /\ Answers = 3
    /\ IsJob(observed[1], 0) /\ IsJob(observed[2], 0) /\ IsJob(observed[3], 2)
    /\ outcome.kind = "Err" /\ outcome.msg = "Compilation failed"
    /\ Len(requests) = 3 /\ sleeps = 2

\* file i of the argument can be read
Readable(i) == IsSome(read_to_string(files[i].path))

\* the form carrying the fixed fields and one field per input file
FullForm ==
    BaseForm(LICENSE, NAME, PROJECT_METADATA)
      \o [i \in 1..Len(files) |->
            FileField(files[i], read_to_string(files[i].path)[1])]

(* C17: dispatch reads every input file before it builds and sends the     *)
(* request.  A request exists only when all files were read, and its form  *)
(* carries each file's content; when some file cannot be read no request   *)
(* is ever issued and the call ends with the I/O error of the first such   *)
(* file, the files after it not being read.                                *)
C17_FilesReadBeforeRequest ==
    op = "dispatch" =>
      /\ requests # <<>>
           => /\ \A i \in 1..Len(files) : Readable(i)
              /\ next_file = Len(files) + 1
              /\ requests[1].body = Some(FullForm)
      /\ (\E i \in 1..Len(files) : ~Readable(i))
           => /\ requests = <<>>
              /\ observed = <<>>
              /\ next_file <= Len(files)
              /\ \A i \in 1..(next_file - 1) : Readable(i)
              /\ pc = "done"
                   => /\ ~Readable(next_file)
                      /\ outcome = Err("I/O error", <<files[next_file].path>>)
      /\ (pc = "done" /\ requests = <<>>) => outcome.msg = "I/O error"

\* the second of two files cannot be read: I/O error and nothing was sent
C17_Witness ==
    /\ op = "dispatch" /\ pc = "done"
    /\ Len(files) = 2 /\ Readable(1) /\ ~Readable(2)
    /\ next_file = 2
    /\ outcome.kind = "Err" /\ outcome.msg = "I/O error"
    /\ requests = <<>>

(* C18 as stated: in every state of a poll the sleeps number at most the   *)
(* requests minus one, exactly that at every exit, and the retry counter   *)
(* equals the number of non-terminal 200 responses observed so far (read   *)
(* for the states from the first request on).                              *)
C18_SleepsBelowRequests ==
    (op = "poll" /\ requests # <<>>) =>
      /\ sleeps <= Len(requests) - 1
      /\ pc = "done" => sleeps = Len(requests) - 1
      /\ retries = NonTerminalCount

(* C18, amended: the sleeps never outnumber the requests.  They equal the  *)
(* requests before the first request and after each sleep until the next   *)
(* request is issued, and the requests minus one from the issue of a       *)
(* request until the sleep after its response, and at every exit: no sleep *)
(* precedes the first request or follows the last response.  The retry     *)
(* counter equals the number of non-terminal 200 responses observed.       *)
C18_SleepsTrackRequests ==
    op = "poll" =>
      /\ sleeps <= Len(requests)
      /\ pc \in {"entry", "get"} => sleeps = Len(requests)
      /\ pc \in {"await", "sleep", "done"} => sleeps = Len(requests) - 1
      /\ pc = "entry" => requests = <<>>
      /\ pc = "done" => Answers = Len(requests)
      /\ retries = NonTerminalCount

\* three sleeps done without the ceiling flag, the fourth request not yet sent
C18_Witness ==
    /\ op = "poll" /\ pc = "get"
    /\ ~FlagEnabled
    /\ Len(requests) = 3 /\ sleeps = 3
    /\ AllNonTerminal(3) /\ retries = 3

\* the counter can take c more increments from its value at the run's start
\* (from a start below 2^31 it can take any number the model reaches)
RoomFor(c) == skipped >= 0 \/ c <= U32Max - skipped

(* C19 as stated: the retry counter stays within its u32 range: every      *)
(* non-terminal response increments it, flag or no flag, and no increment  *)
(* overflows; with the flag on the ceiling works for every max_retries     *)
(* value, 2^32-1 included: after max_retries+1 non-terminal responses      *)
(* (max_retries - skipped + 1 of them since the run's start) the poll has  *)
(* timed out.                                                              *)
C19_CounterWithinU32 ==
    op = "poll" =>
      /\ outcome # OverflowPanic
      /\ RoomFor(NonTerminalCount)
      /\ pc # "entry" => retries = skipped + NonTerminalCount
      /\ (FlagEnabled /\ AllNonTerminal(Answers)
            /\ Answers = (max_retries - skipped) + 1)
           => pc = "done" /\ outcome = TimeoutError

====
